---------------------------- MODULE Spec2Model ----------------------------
(***************************************************************************)
(* Simulated-annealing solver for a monoalphabetic substitution cipher     *)
(* ("Assignment 0/ChatGPTCipherDecoder.py"): keys, the transform, the      *)
(* mutation operators, crib seeding, the annealing walk and the restart    *)
(* orchestrator.                                                           *)
(*                                                                         *)
(* Reductions of the model:                                                *)
(*  - the alphabet has NLetters letters instead of 26.  Letter i of the    *)
(*    model alphabet is the i-th of A, E, H, T (alphabetical, as in        *)
(*    ALPHABET); letters beyond the fourth occur in no bigram and no word. *)
(*  - a character is a pair <<kind, index>>: <<"U", l>> an uppercase       *)
(*    letter, <<"L", l>> a lowercase letter, <<"O", n>> any other          *)
(*    character (1 space, 2 apostrophe, 3 comma, 4 exclamation mark).      *)
(*  - scores are fixed-point numbers in units of 1/1000 (the code uses     *)
(*    floats): ln(count) - ln(TOTAL_BIGRAMS) is rounded to 1/1000.         *)
(*  - a draw of random.random() compared with a threshold is a Boolean;    *)
(*    the temperature only sets the odds of that comparison and is not     *)
(*    kept: a worse candidate may be accepted or rejected at every step.   *)
(*  - SpecObjects is run_restarts with every Key dict followed by its     *)
(*    identity: a heap of dicts and the dict each name refers to, so that  *)
(*    a store through one name is seen through every other name of the    *)
(*    same dict.  The other specifications treat Keys as values.           *)
(*                                                                         *)
(* Document search engine ("Project/src/ai_engine.py"): AIEngine.index and *)
(* AIEngine.query with the embedding cache file.                           *)
(*  - an embedding row is the pair <<model name, text>>; a query text is   *)
(*    given by its cosine similarity (0 or 1) to the row of each           *)
(*    document text.                                                       *)
(*  - the cache file is missing, cut (pickle.load raises EOFError or       *)
(*    UnpicklingError), damaged (pickle.load raises another exception) or  *)
(*    a record written by index.                                           *)
(***************************************************************************)
EXTENDS Integers, Sequences, FiniteSets, TLC

\* ------------------------------------------------------------------ bounds
\* letters of the model alphabet (26 in the code)
NLetters == 3
\* longest text given to the pure transform
MaxTextLen == 2
\* longest crib word given to apply_crib_to_key
MaxCribLen == 3
\* largest `steps` argument of simulated_anneal / run_restarts
MaxSteps == 2
\* largest `restarts` argument of run_restarts
MaxRestarts == 2
\* largest `top_n` argument of run_restarts
MaxTopN == 2

\* ------------------------------------------------------------- characters
Letters == 1..NLetters

\* ALPHABET = "ABCDEFGHIJKLMNOPQRSTUVWXYZ": the letters in order
ALPHABET == [i \in 1..NLetters |-> i]

Upper(l) == <<"U", l>>
Lower(l) == <<"L", l>>
Space == <<"O", 1>>
Apostrophe == <<"O", 2>>
Comma == <<"O", 3>>
Bang == <<"O", 4>>

\* str.isalpha() of one character
isalpha(ch) == ch[1] \in {"U", "L"}
\* str.upper() of one character
upper(ch) == IF ch[1] = "L" THEN <<"U", ch[2]>> ELSE ch
\* str.lower() of one character
lower(ch) == IF ch[1] = "U" THEN <<"L", ch[2]>> ELSE ch
\* str.upper() of a string
upper_str(s) == [i \in 1..Len(s) |-> upper(s[i])]

Range(f) == {f[x] : x \in DOMAIN f}

\* the keys the code means to handle: permutations of the alphabet
Bijections == {k \in [Letters -> Letters] : Range(k) = Letters}

\* each letter occurs exactly once as a value
IsBijection(k) ==
    /\ DOMAIN k = Letters
    /\ \A p \in Letters : Cardinality({c \in Letters : k[c] = p}) = 1

\* ------------------------------------------------------------ key, transform
\* random_key: shuffled copy of the alphabet zipped with the alphabet;
\* `shuffled` is the outcome of random.shuffle, any arrangement of the letters
random_key(shuffled) == [c \in Letters |-> shuffled[c]]

\* the arrangements random.shuffle can produce
Shuffles == {s \in [1..NLetters -> Letters] : Range(s) = Letters}

\* key_to_trans_table: ord(c) -> ord(key[c]) for both cases of every letter
key_to_trans_table(key) ==
    [ch \in {Upper(l) : l \in Letters} \cup {Lower(l) : l \in Letters} |->
        IF ch[1] = "U" THEN Upper(key[ch[2]]) ELSE lower(Upper(key[ch[2]]))]

\* a transform that loses the case of the letters
decrypt_with_key_bad(cipher, key) ==
    LET table == key_to_trans_table(key)
    IN  [i \in 1..Len(cipher) |->
            IF cipher[i] \in DOMAIN table THEN upper(table[cipher[i]]) ELSE cipher[i]]

\* str.translate(table): characters outside the table are copied
decrypt_with_key(cipher, key) ==
    LET table == key_to_trans_table(key)
    IN  [i \in 1..Len(cipher) |->
            IF cipher[i] \in DOMAIN table THEN table[cipher[i]] ELSE cipher[i]]

\* an inversion that returns the Key itself
invert_key_bad(key) == key

\* invert_key: inv[p] = c for the items of key in order (a later c overwrites)
invert_key(key) ==
    [p \in Range(key) |->
        CHOOSE c \in DOMAIN key :
            key[c] = p /\ \A d \in DOMAIN key : key[d] = p => d <= c]

\* ---------------------------------------------------------------- mutation
\* new[a], new[b] = new[b], new[a]: both right-hand sides are read first
SwapAssign(new, a, b) ==
    LET n1 == [new EXCEPT ![a] = new[b]]
    IN  [n1 EXCEPT ![b] = new[a]]

\* the rotation in the other direction: new[a], new[b], new[c] = new[b],
\* new[c], new[a]
ThreeAssign_bad(new, a, b, c) ==
    LET n1 == [new EXCEPT ![a] = new[b]]
        n2 == [n1 EXCEPT ![b] = new[c]]
    IN  [n2 EXCEPT ![c] = new[a]]

\* new[a], new[b], new[c] = new[c], new[a], new[b]: the right-hand sides are
\* read first, the three stores then happen left to right
ThreeAssign(new, a, b, c) ==
    LET n1 == [new EXCEPT ![a] = new[c]]
        n2 == [n1 EXCEPT ![b] = new[a]]
    IN  [n2 EXCEPT ![c] = new[b]]

\* a swap that forgets the second store
mutate_key_random_bad(key, a, b) == [key EXCEPT ![a] = key[b]]

\* mutate_key_random: a, b = random.sample(ALPHABET, 2) are distinct
mutate_key_random(key, a, b) == SwapAssign(key, a, b)

\* the pairs random.sample(ALPHABET, 2) can return
SamplePairs == {ab \in Letters \X Letters : ab[1] # ab[2]}

\* The random draws of one mutate_key_guided call:
\*   guided = (random.random() < 0.6), a, b = random.choice(choices) twice,
\*   multi = (random.random() < 0.1), c = random.choice(choices),
\*   ra, rb = the sample of the mutate_key_random fallback.
\* Draws a branch does not make are fixed to 1 / FALSE.
GuidedDrawsOver(L) ==
    {[guided |-> TRUE, multi |-> TRUE, a |-> a, b |-> b, c |-> c, ra |-> 1, rb |-> 1] :
        a \in L, b \in L, c \in L}
    \cup
    {[guided |-> TRUE, multi |-> FALSE, a |-> a, b |-> b, c |-> 1, ra |-> 1, rb |-> 1] :
        a \in L, b \in L}
    \cup
    {[guided |-> FALSE, multi |-> FALSE, a |-> 1, b |-> 1, c |-> 1, ra |-> ab[1], rb |-> ab[2]] :
        ab \in {xy \in L \X L : xy[1] # xy[2]}}

GuidedDraws == GuidedDrawsOver(Letters)

mutate_key_guided(key, d) ==
    IF d.guided
    THEN IF d.multi
         THEN ThreeAssign(key, d.a, d.b, d.c)
         ELSE SwapAssign(key, d.a, d.b)
    ELSE mutate_key_random(key, d.ra, d.rb)

\* the Keys mutate_fn(current_key) can return, over all its random draws
Neighbours(key) == {mutate_key_guided(key, d) : d \in GuidedDraws}

\* -------------------------------------------------------------------- cribs
\* the first ciphertext letter k (in dict order) with new[k] = p, 0 for None
KForP(new, p) ==
    IF \E k \in Letters : new[k] = p
    THEN CHOOSE k \in Letters : new[k] = p /\ \A j \in Letters : new[j] = p => k <= j
    ELSE 0

\* a loop body that stores p without the swap
CribPair_bad(new, c, p) ==
    IF ~isalpha(c) \/ ~isalpha(p) THEN new
    ELSE [new EXCEPT ![c[2]] = p[2]]

\* a loop body that swaps with the letter p instead of the letter mapped to p
CribPair_wrong_swap(new, c, p) ==
    IF ~isalpha(c) \/ ~isalpha(p) THEN new
    ELSE IF new[c[2]] = p[2] THEN new
    ELSE SwapAssign(new, p[2], c[2])

\* one iteration of the loop over zip(cipher_word, plain_word)
CribPair(new, c, p) ==
    IF ~isalpha(c) \/ ~isalpha(p) THEN new
    ELSE IF new[c[2]] = p[2] THEN new
    ELSE LET k_for_p == KForP(new, p[2])
         IN  IF k_for_p # 0
             THEN SwapAssign(new, k_for_p, c[2])
             ELSE [new EXCEPT ![c[2]] = p[2]]

RECURSIVE CribLoop(_, _, _, _)
CribLoop(new, cw, pw, i) ==
    IF i > Len(cw) THEN new
    ELSE CribLoop(CribPair(new, cw[i], pw[i]), cw, pw, i + 1)

\* zip alone, without the test of the lengths: the longer word is cut
apply_crib_to_key_bad(key, cipher_word, plain_word) ==
    LET m == IF Len(cipher_word) < Len(plain_word) THEN Len(cipher_word)
             ELSE Len(plain_word)
    IN  CribLoop(key, upper_str(SubSeq(cipher_word, 1, m)),
                 upper_str(SubSeq(plain_word, 1, m)), 1)

\* apply_crib_to_key: words of different lengths leave the copy untouched
apply_crib_to_key(key, cipher_word, plain_word) ==
    IF Len(cipher_word) # Len(plain_word) THEN key
    ELSE CribLoop(key, upper_str(cipher_word), upper_str(plain_word), 1)

\* ------------------------------------------------------------------ scoring
\* letters_only: the letters of s.upper()
letters_only(s) == SelectSeq(upper_str(s), isalpha)

\* ln(BIGRAM_FLOOR) - ln(TOTAL_BIGRAMS) in 1/1000: ln(0.01) - ln(213900)
BIGRAM_FLOOR_LOG == -16878

\* bigram_score of a text with fewer than 2 letters: -9999.0 in 1/1000
SHORT_TEXT_SCORE == -9999000

\* ln(BIGRAM_COUNTS.get(bg, BIGRAM_FLOOR)) - ln(TOTAL_BIGRAMS) in 1/1000, for
\* the bigrams of the model alphabet A, E, H, T: AT, HA, HE, TE, TH
BigramLog(x, y) ==
    CASE x = 1 /\ y = 4 -> -3351
      [] x = 3 /\ y = 1 -> -3494
      [] x = 3 /\ y = 2 -> -2475
      [] x = 4 /\ y = 2 -> -3608
      [] x = 4 /\ y = 3 -> -2370
      [] OTHER -> BIGRAM_FLOOR_LOG

RECURSIVE BigramSum(_, _)
BigramSum(txt, i) ==
    IF i >= Len(txt) THEN 0
    ELSE BigramLog(txt[i][2], txt[i + 1][2]) + BigramSum(txt, i + 1)

\* a bigram score without the penalty for short texts
bigram_score_bad(text) ==
    LET txt == letters_only(text)
    IN  IF Len(txt) < 2 THEN 0 ELSE BigramSum(txt, 1)

\* bigram_score: the sum over the adjacent letter pairs, or the penalty
bigram_score(text) ==
    LET txt == letters_only(text)
    IN  IF Len(txt) < 2 THEN SHORT_TEXT_SCORE ELSE BigramSum(txt, 1)

\* a character matched by the class [A-Z'] (after text.upper())
IsTokenChar(ch) == ch[1] = "U" \/ ch = Apostrophe

\* re.findall(r"[A-Z']+", text.upper()): the maximal runs of token characters;
\* cur is the run being read
RECURSIVE FindTokens(_, _, _)
FindTokens(s, i, cur) ==
    IF i > Len(s) THEN (IF cur = <<>> THEN <<>> ELSE <<cur>>)
    ELSE IF IsTokenChar(s[i]) THEN FindTokens(s, i + 1, Append(cur, s[i]))
    ELSE (IF cur = <<>> THEN <<>> ELSE <<cur>>) \o FindTokens(s, i + 1, <<>>)

Tokens(text) == FindTokens(upper_str(text), 1, <<>>)

\* t.strip("'")
RECURSIVE StripApostrophes(_)
StripApostrophes(t) ==
    IF t = <<>> THEN t
    ELSE IF Head(t) = Apostrophe THEN StripApostrophes(Tail(t))
    ELSE IF t[Len(t)] = Apostrophe THEN StripApostrophes(SubSeq(t, 1, Len(t) - 1))
    ELSE t

\* FALLBACK_COMMON_WORDS: its words over A, E, H, T
FALLBACK_COMMON_WORDS ==
    { <<Upper(1)>>, <<Upper(1), Upper(4)>>, <<Upper(3), Upper(2)>>,
      <<Upper(4), Upper(3), Upper(1), Upper(4)>>, <<Upper(4), Upper(3), Upper(2)>> }

\* line.strip(): the whitespace at both ends is removed
RECURSIVE strip(_)
strip(line) ==
    IF line = <<>> THEN line
    ELSE IF Head(line) = Space THEN strip(Tail(line))
    ELSE IF line[Len(line)] = Space THEN strip(SubSeq(line, 1, Len(line) - 1))
    ELSE line

\* w and w.isalpha()
IsAlphaWord(w) == w # <<>> /\ \A n \in 1..Len(w) : isalpha(w[n])

\* the loop over the lines of the file: words after the first n lines
RECURSIVE ReadWords(_, _)
ReadWords(lines, n) ==
    IF n = 0 THEN {}
    ELSE LET w == strip(lines[n])
         IN  ReadWords(lines, n - 1)
             \cup (IF IsAlphaWord(w) THEN {upper_str(w)} ELSE {})

\* a loader that returns the word set as it is, empty or not
load_wordlist_bad(has_path, can_open, lines, delivered) ==
    IF has_path /\ can_open THEN ReadWords(lines, delivered) ELSE {}

\* load_wordlist(path): has_path is the truth value of path, can_open whether
\* open() succeeds, delivered the number of lines the file object yields
\* before the iteration ends or raises; every exception is swallowed
load_wordlist(has_path, can_open, lines, delivered) ==
    LET words == IF has_path /\ can_open THEN ReadWords(lines, delivered) ELSE {}
    IN  IF words = {} THEN FALLBACK_COMMON_WORDS ELSE words

\* ENGLISH_WORDS = load_wordlist(WORDLIST_PATH), WORDLIST_PATH = None
ENGLISH_WORDS == load_wordlist(FALSE, FALSE, <<>>, 0)

\* COMMON_WORDS: its words over A, E, H, T
COMMON_WORDS ==
    { <<Upper(1)>>, <<Upper(3), Upper(2)>>,
      <<Upper(4), Upper(3), Upper(1), Upper(4)>>, <<Upper(4), Upper(3), Upper(2)>> }

\* the contraction suffixes over A, E, H, T: 'T and T (the others hold S or N)
Suffixes == { <<Apostrophe, Upper(4)>>, <<Upper(4)>> }

EndsWith(token, suffix) ==
    /\ Len(token) >= Len(suffix)
    /\ SubSeq(token, Len(token) - Len(suffix) + 1, Len(token)) = suffix

\* whether the token counts as a match of the word list
TokenMatches(token) ==
    \/ token \in ENGLISH_WORDS
    \/ \E suffix \in Suffixes :
        /\ EndsWith(token, suffix)
        /\ SubSeq(token, 1, Len(token) - Len(suffix)) \in ENGLISH_WORDS

\* the tokens that are not empty after stripping apostrophes
StrippedTokens(text) ==
    LET ts == Tokens(text)
    IN  SelectSeq([i \in 1..Len(ts) |-> StripApostrophes(ts[i])],
                  LAMBDA t : t # <<>>)

\* word_score: matches / total in 1/1000, 0 without tokens
word_score(text) ==
    LET ts == StrippedTokens(text)
        total == Len(ts)
        matches == Len(SelectSeq(ts, TokenMatches))
    IN  IF total = 0 THEN 0 ELSE (1000 * matches) \div total

\* common_words_bonus: the number of tokens found in COMMON_WORDS
common_words_bonus(text) ==
    Len(SelectSeq(StrippedTokens(text), LAMBDA t : t \in COMMON_WORDS))

\* a fitness with a fourth term, 100.0 for each token THE
combined_fitness_bad(text) ==
    bigram_score(text) + word_score(text) * 8 + common_words_bonus(text) * 1600
    + Len(SelectSeq(StrippedTokens(text),
                    LAMBDA t : t = <<Upper(4), Upper(3), Upper(2)>>)) * 100000

\* combined_fitness: bg + ws * 8.0 + cw * 1.6, in 1/1000
combined_fitness(text) ==
    bigram_score(text) + word_score(text) * 8 + common_words_bonus(text) * 1600

\* ------------------------------------------------------------------- state
VARIABLES
    cipher,          \* run_restarts: the ciphertext
    restarts,        \* run_restarts: the number of restarts
    steps,           \* run_restarts: the steps of each main run
    crib_list,       \* run_restarts: the cribs, a sequence of <<cipher_word, plain_word>>
    top_n,           \* run_restarts: the size of the answer (read only by the ranking)
    pc,              \* "loop", "main", "polish", "done"; "pure", "returned" in SpecPure
    r,               \* run_restarts: restarts completed
    k0,              \* run_restarts: the seed Key of the current restart
    results,         \* run_restarts: the collected (score, plain, key) entries
    out,             \* run_restarts: the returned list
    initial_key,     \* simulated_anneal: the initial_key argument
    nsteps,          \* simulated_anneal: the steps argument
    i,               \* simulated_anneal: the loop index, iterations completed
    current_key, current_plain, current_score,
    best_key, best_plain, best_score,
    candidate_key, candidate_plain, candidate_score,
    total_iters,     \* iterations of all runs so far (history)
    op,              \* SpecPure: the function applied last, with its arguments
    in_key,          \* SpecPure: the Key argument
    out_key,         \* SpecPure: the Key returned
    out_text,        \* SpecPure: the string returned
    out_score,       \* SpecPure: the score returned, in 1/1000
    out_words,       \* SpecPure: the word set returned
    model_name,      \* AIEngine: self.model_name
    docs,            \* AIEngine: self.docs
    embeddings,      \* AIEngine: self.embeddings, None or one row for each text
    cache,           \* the file EMBED_CACHE
    call,            \* AIEngine: the method called last, with its arguments
    ret,             \* AIEngine: what that call returned or raised
    ncalls,          \* AIEngine: the calls made so far (history)
    nencodes,        \* AIEngine: the document encodings made so far (history)
    nwrites,         \* the writes of EMBED_CACHE so far (history)
    indexed,         \* AIEngine: how the last call of index ended (history)
    heap,            \* SpecObjects: the Key dicts created so far, by identity
    refs             \* SpecObjects: the dict each local name refers to, 0 for none

inputs == <<cipher, restarts, steps, crib_list>>
anneal == <<initial_key, nsteps, i, current_key, current_plain, current_score,
            best_key, best_plain, best_score,
            candidate_key, candidate_plain, candidate_score>>
engine == <<model_name, docs, embeddings, cache, call, ret, ncalls, nencodes,
            nwrites, indexed>>
objects == <<heap, refs>>
pure == <<op, in_key, out_key, out_text, out_score, out_words, engine, objects>>
vars == <<inputs, top_n, pc, r, k0, results, out, anneal, total_iters, pure>>

\* ------------------------------------------------------------------ inputs
\* ciphertexts: "", "A" (fewer than 2 letters) and "Ae a"
Ciphers ==
    { <<>>, <<Upper(1)>>,
      <<Upper(1), Lower(2), Space, Lower(1)>> }

\* cribs: AE -> HE, A -> A (disagrees with the first on A), AE -> A (lengths differ)
CribHE == << <<Upper(1), Upper(2)>>, <<Upper(3), Upper(2)>> >>
CribA == << <<Upper(1)>>, <<Upper(1)>> >>
CribMalformed == << <<Upper(1), Upper(2)>>, <<Upper(1)>> >>

CribLists == { <<>>, <<CribHE>>, <<CribHE, CribA>>, <<CribMalformed, CribHE>> }

\* stand-ins for the locals of simulated_anneal while no run is active
NoKey == [c \in Letters |-> c]
NoPlain == <<>>

AnnealIdle ==
    /\ initial_key = NoKey /\ nsteps = 0 /\ i = 0
    /\ current_key = NoKey /\ current_plain = NoPlain /\ current_score = 0
    /\ best_key = NoKey /\ best_plain = NoPlain /\ best_score = 0
    /\ candidate_key = NoKey /\ candidate_plain = NoPlain /\ candidate_score = 0

\* self.embeddings: None before any index, an array of rows afterwards
None == [array |-> FALSE, rows |-> <<>>]
Array(rows) == [array |-> TRUE, rows |-> rows]

\* EMBED_CACHE.exists() is false; the other fields are blanks
MissingCache == [kind |-> "missing", model |-> "", docs |-> <<>>, embeddings |-> <<>>]

\* what a call returns or raises: kind is "none", "ok" (index returned),
\* "results" (query returned val), or the name of the exception raised
Return(kind, val) == [kind |-> kind, val |-> val]

\* the names of run_restarts and simulated_anneal that hold a Key
NoRefs == [k0 |-> 0, initial_key |-> 0, key |-> 0, best_key |-> 0,
           current_key |-> 0, candidate_key |-> 0]

\* the Keys are not followed as objects
ObjectsIdle == heap = <<>> /\ refs = NoRefs

\* no AIEngine exists
EngineIdle ==
    /\ model_name = "" /\ docs = <<>> /\ embeddings = None
    /\ cache = MissingCache
    /\ call = <<"none">> /\ ret = Return("none", <<>>)
    /\ ncalls = 0 /\ nencodes = 0 /\ nwrites = 0 /\ indexed = "never"
    /\ ObjectsIdle

PureIdle ==
    /\ EngineIdle
    /\ op = <<"none">> /\ in_key = NoKey /\ out_key = NoKey /\ out_text = <<>>
    /\ out_score = 0 /\ out_words = {}

\* run_restarts(cipher, restarts, steps, crib_list, top_n) is entered
Init ==
    /\ cipher \in Ciphers
    /\ restarts \in 0..MaxRestarts
    /\ steps \in 0..MaxSteps
    /\ crib_list \in CribLists
    /\ top_n = 0
    /\ pc = "loop"
    /\ r = 0
    /\ k0 = NoKey
    /\ results = <<>>
    /\ out = <<>>
    /\ total_iters = 0
    /\ AnnealIdle
    /\ PureIdle

\* ------------------------------------------------------- simulated_anneal
\* the entry of simulated_anneal: best and current are the initial Key
AnnealEnter(key, n) ==
    LET plain == decrypt_with_key(cipher, key)
        score == combined_fitness(plain)
    IN  /\ initial_key' = key
        /\ nsteps' = n
        /\ i' = 0
        /\ best_key' = key /\ best_plain' = plain /\ best_score' = score
        /\ current_key' = key /\ current_plain' = plain /\ current_score' = score
        \* no candidate yet: the initial Key stands in
        /\ candidate_key' = key /\ candidate_plain' = plain /\ candidate_score' = score

\* the locals of simulated_anneal are gone when it has returned
AnnealLeave ==
    /\ initial_key' = NoKey /\ nsteps' = 0 /\ i' = 0
    /\ current_key' = NoKey /\ current_plain' = NoPlain /\ current_score' = 0
    /\ best_key' = NoKey /\ best_plain' = NoPlain /\ best_score' = 0
    /\ candidate_key' = NoKey /\ candidate_plain' = NoPlain /\ candidate_score' = 0

\* a loop that stops one iteration early
LoopContinues_bad(idx, n) == idx < n - 1

\* for i in range(steps): whether another iteration follows
LoopContinues(idx, n) == idx < n

\* an acceptance test that may reject a candidate of equal score
Accept_bad(delta, u) == delta > 0 \/ (delta <= 0 /\ u)

\* an acceptance decided by the draw alone
Accept_draw_only(delta, u) == u

\* delta > 0 or math.exp(delta / max(temp, 1e-12)) > random.random();
\* u is the outcome of the comparison with the draw when delta < 0
\* (exp(0) = 1.0 exceeds every draw of [0.0, 1.0))
Accept(delta, u) == delta > 0 \/ delta = 0 \/ (delta < 0 /\ u)

\* one iteration of the loop of simulated_anneal
AnnealStep ==
    /\ pc \in {"main", "polish"}
    /\ LoopContinues(i, nsteps)
    /\ \E cand_key \in Neighbours(current_key), u \in BOOLEAN :
        LET cand_plain == decrypt_with_key(cipher, cand_key)
            cand_score == combined_fitness(cand_plain)
            delta == cand_score - current_score
        IN  /\ candidate_key' = cand_key
            /\ candidate_plain' = cand_plain
            /\ candidate_score' = cand_score
            /\ IF Accept(delta, u)
               THEN /\ current_key' = cand_key
                    /\ current_plain' = cand_plain
                    /\ current_score' = cand_score
                    /\ IF cand_score > best_score
                       THEN /\ best_score' = cand_score
                            /\ best_key' = cand_key
                            /\ best_plain' = cand_plain
                       ELSE UNCHANGED <<best_score, best_key, best_plain>>
               ELSE UNCHANGED <<current_key, current_plain, current_score,
                                best_score, best_key, best_plain>>
    /\ i' = i + 1
    /\ total_iters' = total_iters + 1
    /\ UNCHANGED <<inputs, top_n, pc, r, k0, results, out, initial_key, nsteps, pure>>

\* a return that takes the plaintext from the current state
AnnealResult_mixed == [score |-> best_score, plain |-> current_plain, key |-> best_key]

\* a return of the final current state instead of the best
AnnealResult_bad == [score |-> current_score, plain |-> current_plain, key |-> current_key]

\* return best_key, best_score, best_plain
AnnealResult == [score |-> best_score, plain |-> best_plain, key |-> best_key]

\* ------------------------------------------------------------ run_restarts
\* the seeds one restart can draw: a random Key, with one crib of the list
\* applied (random.random() < 0.7) or all of them in list order
\* a fold that applies the cribs from the last to the first
RECURSIVE ApplyCribs_bad(_, _, _)
ApplyCribs_bad(key, cribs, j) ==
    IF j > Len(cribs) THEN key
    ELSE apply_crib_to_key(ApplyCribs_bad(key, cribs, j + 1), cribs[j][1], cribs[j][2])

\* for cw, pw in crib_list: k0 = apply_crib_to_key(k0, cw, pw)
RECURSIVE ApplyCribs(_, _, _)
ApplyCribs(key, cribs, j) ==
    IF j > Len(cribs) THEN key
    ELSE ApplyCribs(apply_crib_to_key(key, cribs[j][1], cribs[j][2]), cribs, j + 1)

\* a seed to which no crib is applied
SeedKey_bad(shuffled, one, j) == random_key(shuffled)

\* k0 = random_key(), then one crib of the list or all of them
SeedKey(shuffled, one, j) ==
    LET fresh == random_key(shuffled)
    IN  IF crib_list = <<>> THEN fresh
        ELSE IF one THEN apply_crib_to_key(fresh, crib_list[j][1], crib_list[j][2])
        ELSE ApplyCribs(fresh, crib_list, 1)

\* a polish run as long as the main run
PolishSteps_bad(n) == n

\* int(steps / 2)
PolishSteps(n) == n \div 2

\* one pass of the restart loop up to the call of the main run
Restart ==
    /\ pc = "loop"
    /\ r < restarts
    /\ \E shuffled \in Shuffles, one \in BOOLEAN, j \in 1..Len(crib_list) \cup {1} :
        /\ k0' = SeedKey(shuffled, one, j)
        /\ AnnealEnter(SeedKey(shuffled, one, j), steps)
    /\ pc' = "main"
    /\ UNCHANGED <<inputs, top_n, r, results, out, total_iters, pure>>

\* the main run returns; its result is appended and the polish run is called
\* with initial_key = key, steps = int(steps / 2)
EndMain ==
    /\ pc = "main"
    /\ ~LoopContinues(i, nsteps)
    /\ results' = Append(results, AnnealResult)
    /\ AnnealEnter(best_key, PolishSteps(steps))
    /\ pc' = "polish"
    /\ UNCHANGED <<inputs, top_n, r, k0, out, total_iters, pure>>

\* the polish run returns; its result is appended and the restart is over
EndPolish ==
    /\ pc = "polish"
    /\ ~LoopContinues(i, nsteps)
    /\ results' = Append(results, AnnealResult)
    /\ AnnealLeave
    /\ r' = r + 1
    /\ pc' = "loop"
    /\ UNCHANGED <<inputs, top_n, k0, out, total_iters, pure>>

\* results.sort(reverse=True, key=lambda x: x[0]): stable, descending by score
RECURSIVE InsertDesc(_, _)
InsertDesc(e, sorted) ==
    IF sorted = <<>> THEN <<e>>
    ELSE IF Head(sorted).score >= e.score
         THEN <<Head(sorted)>> \o InsertDesc(e, Tail(sorted))
         ELSE <<e>> \o sorted

RECURSIVE SortFrom(_, _, _)
SortFrom(seq, j, sorted) ==
    IF j > Len(seq) THEN sorted
    ELSE SortFrom(seq, j + 1, InsertDesc(seq[j], sorted))

\* no sort at all
SortDesc_bad(seq) == seq

\* results.sort(reverse=True, key=lambda x: x[0])
SortDesc(seq) == SortFrom(seq, 1, <<>>)

\* the loop over the sorted results: an unseen plaintext is appended, and the
\* loop breaks once len(out) >= top_n
RECURSIVE Walk(_, _, _, _, _)
Walk(sorted, j, seen, acc, n) ==
    IF j > Len(sorted) THEN acc
    ELSE LET e == sorted[j]
             acc2 == IF e.plain \notin seen THEN Append(acc, e) ELSE acc
         IN  IF Len(acc2) >= n THEN acc2
             ELSE Walk(sorted, j + 1, seen \cup {e.plain}, acc2, n)

\* the first n entries without deduplication
TopUnique_bad(sorted, n) == SubSeq(sorted, 1, IF n < Len(sorted) THEN n ELSE Len(sorted))

\* seen = set(); out = []; the loop; return out
TopUnique(sorted, n) == Walk(sorted, 1, {}, <<>>, n)

\* the restart loop is over: sort the results in place, deduplicate, return;
\* top_n is an argument of the call that nothing reads before this point
Rank ==
    /\ pc = "loop"
    /\ r >= restarts
    /\ results' = SortDesc(results)
    /\ \E n \in 0..MaxTopN :
        /\ top_n' = n
        /\ out' = TopUnique(SortDesc(results), n)
    /\ pc' = "done"
    /\ UNCHANGED <<inputs, r, k0, anneal, total_iters, pure>>

Next == Restart \/ AnnealStep \/ EndMain \/ EndPolish \/ Rank

Spec == Init /\ [][Next]_vars

\* ------------------------------------------- simulated_anneal on its own
\* simulated_anneal(cipher, initial_key, steps=steps) is entered with a Key
InitAnneal ==
    /\ cipher \in Ciphers
    /\ steps \in 0..MaxSteps
    /\ restarts = 0 /\ crib_list = <<>> /\ top_n = 0
    /\ pc = "main" /\ r = 0 /\ k0 = NoKey /\ results = <<>> /\ out = <<>>
    /\ total_iters = 0
    /\ PureIdle
    /\ \E key \in Bijections :
        LET plain == decrypt_with_key(cipher, key)
            score == combined_fitness(plain)
        IN  /\ initial_key = key /\ nsteps = steps /\ i = 0
            /\ best_key = key /\ best_plain = plain /\ best_score = score
            /\ current_key = key /\ current_plain = plain /\ current_score = score
            /\ candidate_key = key /\ candidate_plain = plain
            /\ candidate_score = score

\* the loop is over and the best triple is returned to the caller
AnnealReturn ==
    /\ pc = "main"
    /\ ~LoopContinues(i, nsteps)
    /\ results' = <<AnnealResult>>
    /\ pc' = "returned"
    /\ UNCHANGED <<inputs, top_n, r, k0, out, anneal, total_iters, pure>>

NextAnneal == AnnealStep \/ AnnealReturn

SpecAnneal == InitAnneal /\ [][NextAnneal]_vars

\* ------------------------------------------------- the functions on their own
\* strings of at most n characters of the set chars
StringsUpTo(chars, n) == UNION {[1..m -> chars] : m \in 0..n}

UpperChars == {Upper(l) : l \in Letters}
LetterChars == UpperChars \cup {Lower(l) : l \in Letters}

\* "Ab, C!"
ExampleText == <<Upper(1), Lower(2), Comma, Space, Upper(3), Bang>>

\* texts given to decrypt_with_key
Texts == StringsUpTo(LetterChars \cup {Space, Comma}, MaxTextLen) \cup {ExampleText}

\* texts of ASCII letters and whitespace: the short ones and "Ab C"
LetterSpaceTexts ==
    StringsUpTo(LetterChars \cup {Space}, MaxTextLen)
    \cup { <<Upper(1), Lower(2), Space, Upper(3)>> }

\* crib words: uppercase words of equal length, short words of any two
\* lengths, and two pairs with lowercase letters and an apostrophe
CribWordPairs ==
    UNION {[1..m -> UpperChars] \X [1..m -> UpperChars] : m \in 0..MaxCribLen}
    \cup (StringsUpTo(UpperChars, 2) \X StringsUpTo(UpperChars, 2))
    \cup { << <<Lower(1), Apostrophe, Upper(2)>>, <<Lower(2), Apostrophe, Lower(3)>> >>,
           << <<Upper(1), Apostrophe>>, <<Upper(2), Upper(3)>> >> }

InitPure ==
    /\ cipher = <<>> /\ restarts = 0 /\ steps = 0 /\ crib_list = <<>> /\ top_n = 0
    /\ pc = "pure" /\ r = 0 /\ k0 = NoKey /\ results = <<>> /\ out = <<>>
    /\ total_iters = 0
    /\ AnnealIdle
    /\ PureIdle

\* each function is called once on arguments of its domain and returns
PureFrame ==
    /\ pc' = "returned"
    /\ UNCHANGED <<engine, objects>>
    /\ UNCHANGED <<inputs, top_n, r, k0, results, out, anneal, total_iters>>

\* random_key()
CallRandomKey ==
    /\ pc = "pure"
    /\ \E shuffled \in Shuffles :
        /\ op' = <<"random_key">>
        /\ in_key' = NoKey
        /\ out_key' = random_key(shuffled)
        /\ out_text' = <<>>
        /\ UNCHANGED <<out_score, out_words>>
    /\ PureFrame

\* mutate_key_random(key)
CallMutateRandom ==
    /\ pc = "pure"
    /\ \E key \in Bijections, ab \in SamplePairs :
        /\ op' = <<"mutate_key_random", ab[1], ab[2]>>
        /\ in_key' = key
        /\ out_key' = mutate_key_random(key, ab[1], ab[2])
        /\ out_text' = <<>>
        /\ UNCHANGED <<out_score, out_words>>
    /\ PureFrame

\* the alphabet with one more letter, so that a mutation of three letters
\* leaves a letter out
WideLetters == 1..(NLetters + 1)
WideBijections == {k \in [WideLetters -> WideLetters] : Range(k) = WideLetters}

\* mutate_key_guided(key), on the Keys of the wider alphabet
CallMutateGuided ==
    /\ pc = "pure"
    /\ \E key \in WideBijections, d \in GuidedDrawsOver(WideLetters) :
        /\ op' = <<"mutate_key_guided", d>>
        /\ in_key' = key
        /\ out_key' = mutate_key_guided(key, d)
        /\ out_text' = <<>>
        /\ UNCHANGED <<out_score, out_words>>
    /\ PureFrame

\* apply_crib_to_key(key, cipher_word, plain_word)
CallApplyCrib ==
    /\ pc = "pure"
    /\ \E key \in Bijections, w \in CribWordPairs :
        /\ op' = <<"apply_crib_to_key", w[1], w[2]>>
        /\ in_key' = key
        /\ out_key' = apply_crib_to_key(key, w[1], w[2])
        /\ out_text' = <<>>
        /\ UNCHANGED <<out_score, out_words>>
    /\ PureFrame

\* decrypt_with_key(text, key): the Keys a run decrypts with are the
\* permutations and what mutate_key_guided makes of them
CallDecrypt ==
    /\ pc = "pure"
    /\ \E key \in Bijections \cup UNION {Neighbours(k) : k \in Bijections}, text \in Texts :
        /\ op' = <<"decrypt_with_key", text>>
        /\ in_key' = key
        /\ out_key' = key
        /\ out_text' = decrypt_with_key(text, key)
        /\ UNCHANGED <<out_score, out_words>>
    /\ PureFrame

\* decrypt_with_key(decrypt_with_key(text, invert_key(key)), key)
CallRoundTrip ==
    /\ pc = "pure"
    /\ \E key \in Bijections, text \in LetterSpaceTexts :
        /\ op' = <<"round_trip", text>>
        /\ in_key' = key
        /\ out_key' = invert_key(key)
        /\ out_text' = decrypt_with_key(decrypt_with_key(text, invert_key(key)), key)
        /\ UNCHANGED <<out_score, out_words>>
    /\ PureFrame

\* E -> H: shares the plaintext letter H with CribHE
CribEH == << <<Upper(2)>>, <<Upper(3)>> >>

\* the crib lists of at most two cribs
\* AA -> EH: one ciphertext letter with two plaintext letters
CribAA == << <<Upper(1), Upper(1)>>, <<Upper(2), Upper(3)>> >>

CribPool == {CribHE, CribA, CribMalformed, CribEH, CribAA}
PureCribLists == UNION {[1..m -> CribPool] : m \in 0..2}

\* for cw, pw in crib_list: k0 = apply_crib_to_key(k0, cw, pw), on a Key
CallApplyCribs ==
    /\ pc = "pure"
    /\ \E key \in Bijections, cribs \in PureCribLists :
        /\ op' = <<"apply_cribs", cribs>>
        /\ in_key' = key
        /\ out_key' = ApplyCribs(key, cribs, 1)
        /\ out_text' = <<>>
        /\ UNCHANGED <<out_score, out_words>>
    /\ PureFrame

\* "THE", "the he", "A THE", "at, het '"
TextTHE == <<Upper(4), Upper(3), Upper(2)>>
TextTheHe == <<Lower(4), Lower(3), Lower(2), Space, Lower(3), Lower(2)>>
TextATHE == <<Upper(1), Space, Upper(4), Upper(3), Upper(2)>>
TextAtHet == <<Lower(1), Lower(4), Comma, Space, Lower(3), Lower(2), Lower(4),
               Space, Apostrophe>>

\* texts given to the scoring functions: the short strings of letters,
\* spaces, commas and apostrophes, and the four texts above
ScoreTexts ==
    StringsUpTo(LetterChars \cup {Space, Comma, Apostrophe}, MaxTextLen)
    \cup {TextTHE, TextTheHe, TextATHE, TextAtHet}

\* bigram_score(text)
CallBigramScore ==
    /\ pc = "pure"
    /\ \E text \in ScoreTexts :
        /\ op' = <<"bigram_score", text>>
        /\ out_score' = bigram_score(text)
        /\ UNCHANGED <<in_key, out_key, out_text, out_words>>
    /\ PureFrame

\* combined_fitness(text)
CallCombinedFitness ==
    /\ pc = "pure"
    /\ \E text \in ScoreTexts :
        /\ op' = <<"combined_fitness", text>>
        /\ out_score' = combined_fitness(text)
        /\ UNCHANGED <<in_key, out_key, out_text, out_words>>
    /\ PureFrame

\* lines of a word list file: "he", "A", " at ", "a'", "", "h e"
LinePool ==
    { <<Lower(3), Lower(2)>>, <<Upper(1)>>, <<Space, Lower(1), Lower(4), Space>>,
      <<Lower(1), Apostrophe>>, <<>>, <<Lower(3), Space, Lower(2)>> }

\* files of at most MaxLines lines
MaxLines == 2
WordFiles == UNION {[1..m -> LinePool] : m \in 0..MaxLines}

\* load_wordlist(path): no path, a path that cannot be opened, a file read to
\* its end, or a file whose reading raises after some of its lines
CallLoadWordlist ==
    /\ pc = "pure"
    /\ \E has_path \in BOOLEAN, can_open \in BOOLEAN, lines \in WordFiles :
        \E delivered \in 0..Len(lines) :
            /\ op' = <<"load_wordlist", has_path, can_open, lines, delivered>>
            /\ out_words' = load_wordlist(has_path, can_open, lines, delivered)
            /\ UNCHANGED <<in_key, out_key, out_text, out_score>>
    /\ PureFrame

NextPure ==
    \/ CallRandomKey \/ CallMutateRandom \/ CallMutateGuided
    \/ CallApplyCrib \/ CallDecrypt \/ CallRoundTrip
    \/ CallApplyCribs \/ CallBigramScore \/ CallCombinedFitness
    \/ CallLoadWordlist

SpecPure == InitPure /\ [][NextPure]_vars

\* a call of run_restarts or a call of one of the functions
InitRunOrCall == Init \/ InitPure

NextRunOrCall == Next \/ NextPure

SpecRunOrCall == InitRunOrCall /\ [][NextRunOrCall]_vars

\* ---------------------------------------------------------------- AIEngine
\* the longest document list
MaxDocs == 2
\* the calls of one engine
MaxCalls == 3
\* the largest top_k: one more than the longest document list
MaxTopK == MaxDocs + 1
\* the cosine similarities of the model: two values, so that scores can be
\* equal or differ
Scores == {0, 1}

\* the default model name and another one
ModelNames == {"all-MiniLM-L6-v2", "other"}

\* documents: dicts with 'id' and 'text'
DocPool == {[id |-> "0", text |-> "apple"], [id |-> "1", text |-> "banana"]}
DocLists == UNION {[1..m -> DocPool] : m \in 0..MaxDocs}

\* self.model.encode(texts): one row for each text, a function of the model
\* and the text
encode(name, texts) == [n \in 1..Len(texts) |-> <<name, texts[n]>>]

\* texts = [d["text"] for d in docs]
TextsOf(ds) == [n \in 1..Len(ds) |-> ds[n].text]

\* pickle.dump({"model": ..., "docs": ..., "embeddings": ...}, f)
CacheRecord(name, ds, emb) ==
    [kind |-> "record", model |-> name, docs |-> ds, embeddings |-> emb]

\* a file on which pickle.load raises EOFError or UnpicklingError (empty, cut)
TruncatedCache == [kind |-> "truncated", model |-> "", docs |-> <<>>, embeddings |-> <<>>]

\* a file on which pickle.load raises another exception (UnicodeDecodeError,
\* ValueError, ModuleNotFoundError, ... on changed bytes)
DamagedCache == [kind |-> "damaged", model |-> "", docs |-> <<>>, embeddings |-> <<>>]

\* the caches an earlier index of some engine has written
WrittenCaches ==
    {CacheRecord(name, ds, encode(name, TextsOf(ds))) : name \in ModelNames, ds \in DocLists}

\* AIEngine(): the default model name, no documents, no embeddings; the
\* cache file is missing, unreadable or left by an earlier run of an engine
\* with this or another model name
InitEngine ==
    /\ cipher = <<>> /\ restarts = 0 /\ steps = 0 /\ crib_list = <<>> /\ top_n = 0
    /\ pc = "engine" /\ r = 0 /\ k0 = NoKey /\ results = <<>> /\ out = <<>>
    /\ total_iters = 0
    /\ AnnealIdle
    /\ op = <<"none">> /\ in_key = NoKey /\ out_key = NoKey /\ out_text = <<>>
    /\ out_score = 0 /\ out_words = {}
    /\ model_name = "all-MiniLM-L6-v2"
    /\ docs = <<>> /\ embeddings = None
    /\ cache \in {MissingCache, TruncatedCache, DamagedCache} \cup WrittenCaches
    /\ call = <<"none">> /\ ret = Return("none", <<>>)
    /\ ncalls = 0 /\ nencodes = 0 /\ nwrites = 0 /\ indexed = "never"
    /\ ObjectsIdle

\* what an AIEngine method leaves alone
EngineFrame ==
    /\ ncalls' = ncalls + 1
    /\ UNCHANGED <<inputs, top_n, pc, r, k0, results, out, anneal, total_iters,
                   op, in_key, out_key, out_text, out_score, out_words, model_name,
                   objects>>

\* lines 67-70: encode the texts, keep the rows, write the cache
Recompute(ds) ==
    /\ embeddings' = Array(encode(model_name, TextsOf(ds)))
    /\ cache' = CacheRecord(model_name, ds, encode(model_name, TextsOf(ds)))
    /\ nencodes' = nencodes + 1
    /\ nwrites' = nwrites + 1
    /\ ret' = Return("ok", <<>>)
    /\ indexed' = "ok"

\* the cached record passes the test of line 60
CacheMatches(ds) ==
    /\ cache.kind = "record"
    /\ cache.model = model_name
    /\ Len(cache.docs) = Len(ds)

\* a test of the model name alone
CacheMatches_bad(ds) ==
    /\ cache.kind = "record"
    /\ cache.model = model_name

\* AIEngine.index(docs, force_recompute)
Index ==
    /\ pc = "engine"
    /\ ncalls < MaxCalls
    /\ \E ds \in DocLists, force_recompute \in BOOLEAN :
        /\ call' = <<"index", ds, force_recompute>>
        /\ docs' = ds
        /\ IF cache.kind # "missing" /\ ~force_recompute
           THEN IF cache.kind = "damaged"
                THEN \* pickle.load raises an exception the except clause does not name
                     /\ ret' = Return("Exception", <<>>)
                     /\ indexed' = "raised"
                     /\ UNCHANGED <<embeddings, cache, nencodes, nwrites>>
                ELSE IF CacheMatches(ds)
                THEN /\ embeddings' = Array(cache.embeddings)
                     /\ ret' = Return("ok", <<>>)
                     /\ indexed' = "ok"
                     /\ UNCHANGED <<cache, nencodes, nwrites>>
                ELSE Recompute(ds)
           ELSE Recompute(ds)
    /\ EngineFrame
\* a query text, given by its cosine similarity to the row the engine's
\* model makes of each document text
QueryTexts == [{d.text : d \in DocPool} -> Scores]

\* scores = util.cos_sim(q_emb, self.embeddings)[0]
ScoresOf(text) == [n \in 1..Len(embeddings.rows) |-> text[embeddings.rows[n][2]]]

\* an order that puts the scores in increasing order
Argsort_bad(scores) ==
    {order \in [1..Len(scores) -> 1..Len(scores)] :
        /\ \A m \in 1..Len(scores), n \in 1..Len(scores) : m # n => order[m] # order[n]
        /\ \A n \in 1..(Len(scores) - 1) : scores[order[n]] <= scores[order[n + 1]]}

\* np.argsort(-scores): the orders of the row indices that put the scores
\* in non-increasing order (the order of equal scores is not fixed)
Argsort(scores) ==
    {order \in [1..Len(scores) -> 1..Len(scores)] :
        /\ \A m \in 1..Len(scores), n \in 1..Len(scores) : m # n => order[m] # order[n]
        /\ \A n \in 1..(Len(scores) - 1) : scores[order[n]] >= scores[order[n + 1]]}

\* seq[:top_k] for top_k >= 0
Take(seq, top_k) == SubSeq(seq, 1, IF top_k < Len(seq) THEN top_k ELSE Len(seq))

\* a guard that tests the embeddings alone
NotIndexed_bad == embeddings = None

\* self.embeddings is None or not self.docs
NotIndexed == embeddings = None \/ docs = <<>>

\* AIEngine.query(text, top_k), top_k >= 0
Query ==
    /\ pc = "engine"
    /\ ncalls < MaxCalls
    /\ \E text \in QueryTexts, top_k \in 0..MaxTopK :
        /\ call' = <<"query", text, top_k>>
        /\ IF NotIndexed
           THEN ret' = Return("RuntimeError", <<>>)
           ELSE IF embeddings.rows = <<>>
           THEN \* no row to compare with: cos_sim on an empty array
                ret' \in {Return("results", <<>>), Return("Exception", <<>>)}
           ELSE \E order \in Argsort(ScoresOf(text)) :
                LET idx == Take(order, top_k)
                IN  IF \E n \in 1..Len(idx) : idx[n] > Len(docs)
                    THEN \* self.docs[int(i)] beyond the list
                         ret' = Return("IndexError", <<>>)
                    ELSE ret' = Return("results",
                            [n \in 1..Len(idx) |-> <<docs[idx[n]], ScoresOf(text)[idx[n]]>>])
    /\ UNCHANGED <<docs, embeddings, cache, nencodes, nwrites, indexed>>
    /\ EngineFrame

\* the file is deleted, cut or changed between two calls
CacheTamper ==
    /\ pc = "engine"
    /\ cache.kind = "record"
    /\ cache' \in {MissingCache, TruncatedCache, DamagedCache}
    /\ UNCHANGED <<inputs, top_n, pc, r, k0, results, out, anneal, total_iters,
                   op, in_key, out_key, out_text, out_score, out_words,
                   model_name, docs, embeddings, call, ret, ncalls, nencodes,
                   nwrites, indexed, objects>>

NextEngine == Index \/ Query \/ CacheTamper

SpecEngine == InitEngine /\ [][NextEngine]_vars

\* ------------------------------------------------------ the Keys as objects
\* run_restarts with every Key dict followed by identity: heap[o] is the
\* contents of dict o, refs is the dict each local name refers to, and an
\* entry of results carries in ref the dict it holds, beside the contents
\* that dict had when the entry was appended. The Key-valued variables hold
\* the contents their dict had when the name was bound.

\* a second name for the same dict in place of a copy
CopyKey_bad(h, o) == <<h, o>>

\* key.copy(): the heap with a new dict of the same contents, and that dict
CopyKey(h, o) == <<Append(h, h[o]), Len(h) + 1>>

\* new[a], new[b] = ...: the stores of a function leave its dict new = c[2]
\* with these contents
StoreKey(c, contents) == <<[c[1] EXCEPT ![c[2]] = contents], c[2]>>

\* mutate_fn(key): new = key.copy(), the swap stored into new, return new
MutateObject(h, o, contents) == StoreKey(CopyKey(h, o), contents)

\* apply_crib_to_key(key, cw, pw): new = key.copy(), the stores of the loop
\* into new, return new
ApplyCribObject(h, o, cw, pw) ==
    StoreKey(CopyKey(h, o), apply_crib_to_key(h[o], cw, pw))

\* for cw, pw in crib_list: k0 = apply_crib_to_key(k0, cw, pw)
RECURSIVE ApplyCribsObject(_, _, _, _)
ApplyCribsObject(h, o, cribs, j) ==
    IF j > Len(cribs) THEN <<h, o>>
    ELSE LET a == ApplyCribObject(h, o, cribs[j][1], cribs[j][2])
         IN  ApplyCribsObject(a[1], a[2], cribs, j + 1)

\* the crib branch of a restart, on the dict of k0
SeedObject(h, o, one, j) ==
    IF crib_list = <<>> THEN <<h, o>>
    ELSE IF one THEN ApplyCribObject(h, o, crib_list[j][1], crib_list[j][2])
    ELSE ApplyCribsObject(h, o, crib_list, 1)

\* the entry of simulated_anneal(initial_key = o): key = initial_key.copy(),
\* best_key = key.copy(), current_key = key.copy()
EnterObjects(h, o) ==
    LET key == CopyKey(h, o)
        best == CopyKey(key[1], key[2])
        current == CopyKey(best[1], key[2])
    IN  [heap |-> current[1],
         refs |-> [k0 |-> refs.k0, initial_key |-> o, key |-> key[2],
                   best_key |-> best[2], current_key |-> current[2],
                   candidate_key |-> 0]]

\* the (score, plain, key) tuple a run returns, with the dict of its key
ObjectResult ==
    [score |-> best_score, plain |-> best_plain,
     key |-> heap[refs.best_key], ref |-> refs.best_key]

\* run_restarts is entered; the runs followed dict by dict are those on the
\* ciphertext "Ae a", without cribs or with two, of MaxSteps iterations of
\* main runs in all
InitObjects ==
    /\ Init
    /\ cipher = <<Upper(1), Lower(2), Space, Lower(1)>>
    /\ crib_list \in {<<>>, <<CribHE, CribA>>}
    /\ restarts * steps <= MaxSteps

\* k0 = random_key(): a new dict
ObjSeed ==
    /\ pc = "loop"
    /\ r < restarts
    /\ \E shuffled \in Shuffles :
        /\ heap' = Append(heap, random_key(shuffled))
        /\ k0' = random_key(shuffled)
    /\ refs' = [refs EXCEPT !.k0 = Len(heap) + 1]
    /\ pc' = "seeded"
    /\ UNCHANGED <<inputs, top_n, r, results, out, anneal, total_iters,
                   op, in_key, out_key, out_text, out_score, out_words, engine>>

\* the cribs are applied to k0 and the main run is entered
ObjCribs ==
    /\ pc = "seeded"
    /\ \E one \in BOOLEAN, j \in 1..Len(crib_list) \cup {1} :
        LET s == SeedObject(heap, refs.k0, one, j)
            e == EnterObjects(s[1], s[2])
        IN  /\ heap' = e.heap
            /\ refs' = [e.refs EXCEPT !.k0 = s[2]]
            /\ k0' = s[1][s[2]]
            /\ AnnealEnter(s[1][s[2]], steps)
    /\ pc' = "main"
    /\ UNCHANGED <<inputs, top_n, r, results, out, total_iters,
                   op, in_key, out_key, out_text, out_score, out_words, engine>>

\* one iteration of the loop of simulated_anneal: the candidate is the dict
\* mutate_fn returns, current_key = candidate_key is a second name for it,
\* best_key = current_key.copy() a new dict
ObjStep ==
    /\ pc \in {"main", "polish"}
    /\ LoopContinues(i, nsteps)
    /\ \E contents \in Neighbours(heap[refs.current_key]), u \in BOOLEAN :
        LET m == MutateObject(heap, refs.current_key, contents)
            cand_key == m[1][m[2]]
            cand_plain == decrypt_with_key(cipher, cand_key)
            cand_score == combined_fitness(cand_plain)
            delta == cand_score - current_score
            b == CopyKey(m[1], m[2])
        IN  /\ candidate_key' = cand_key
            /\ candidate_plain' = cand_plain
            /\ candidate_score' = cand_score
            /\ IF Accept(delta, u)
               THEN /\ current_key' = cand_key
                    /\ current_plain' = cand_plain
                    /\ current_score' = cand_score
                    /\ IF cand_score > best_score
                       THEN /\ best_score' = cand_score
                            /\ best_key' = b[1][b[2]]
                            /\ best_plain' = cand_plain
                            /\ heap' = b[1]
                            /\ refs' = [refs EXCEPT !.candidate_key = m[2],
                                                    !.current_key = m[2],
                                                    !.best_key = b[2]]
                       ELSE /\ heap' = m[1]
                            /\ refs' = [refs EXCEPT !.candidate_key = m[2],
                                                    !.current_key = m[2]]
                            /\ UNCHANGED <<best_score, best_key, best_plain>>
               ELSE /\ heap' = m[1]
                    /\ refs' = [refs EXCEPT !.candidate_key = m[2]]
                    /\ UNCHANGED <<current_key, current_plain, current_score,
                                   best_score, best_key, best_plain>>
    /\ i' = i + 1
    /\ total_iters' = total_iters + 1
    /\ UNCHANGED <<inputs, top_n, pc, r, k0, results, out, initial_key, nsteps,
                   op, in_key, out_key, out_text, out_score, out_words, engine>>

\* the main run returns its best dict; the entry is appended and the polish
\* run is entered with initial_key = key
ObjEndMain ==
    /\ pc = "main"
    /\ ~LoopContinues(i, nsteps)
    /\ results' = Append(results, ObjectResult)
    /\ heap' = EnterObjects(heap, refs.best_key).heap
    /\ refs' = EnterObjects(heap, refs.best_key).refs
    /\ AnnealEnter(heap[refs.best_key], PolishSteps(steps))
    /\ pc' = "polish"
    /\ UNCHANGED <<inputs, top_n, r, k0, out, total_iters,
                   op, in_key, out_key, out_text, out_score, out_words, engine>>

\* the polish run returns its best dict; the entry is appended
ObjEndPolish ==
    /\ pc = "polish"
    /\ ~LoopContinues(i, nsteps)
    /\ results' = Append(results, ObjectResult)
    /\ AnnealLeave
    /\ refs' = [NoRefs EXCEPT !.k0 = refs.k0]
    /\ r' = r + 1
    /\ pc' = "loop"
    /\ UNCHANGED <<inputs, top_n, k0, out, total_iters, heap,
                   op, in_key, out_key, out_text, out_score, out_words, engine>>

\* the sort and the deduplication of Rank move the entries, not the dicts
NextObjects == ObjSeed \/ ObjCribs \/ ObjStep \/ ObjEndMain \/ ObjEndPolish \/ Rank

SpecObjects == InitObjects /\ [][NextObjects]_vars

\* ------------------------------------------------------------------ claims
InRun == pc \in {"main", "polish"}

\* C1: in every state of a run of simulated_anneal started from a bijective
\* Key, the current Key, the candidate Key returned by mutate_key_guided and
\* the best Key are bijections over the alphabet.
C1_RunKeysAreBijections ==
    InRun => /\ IsBijection(current_key)
             /\ IsBijection(candidate_key)
             /\ IsBijection(best_key)

\* C2: random_key returns a permutation of the alphabet, and for a bijective
\* Key mutate_key_random and apply_crib_to_key (any pair of words of equal
\* length, repeated letters and contradictions included) return a bijection.
C2_KeyOpsKeepBijection ==
    /\ op[1] = "random_key" => IsBijection(out_key)
    /\ op[1] = "mutate_key_random" /\ IsBijection(in_key) => IsBijection(out_key)
    /\ op[1] = "apply_crib_to_key" /\ IsBijection(in_key) => IsBijection(out_key)

\* a crib that repeats the ciphertext letter A with two plaintext letters
C2_Witness ==
    /\ op[1] = "apply_crib_to_key"
    /\ op[2] = <<Upper(1), Upper(1), Upper(2)>>
    /\ op[3] = <<Upper(2), Upper(3), Upper(2)>>
    /\ out_key # in_key
    /\ IsBijection(out_key)

\* the aligned pairs of two words whose characters are both letters
LetterPairs(cw, pw) ==
    {<<upper(cw[n]), upper(pw[n])>> : n \in {m \in 1..Len(cw) : isalpha(cw[m]) /\ isalpha(pw[m])}}

\* no ciphertext letter with two plaintext letters, and the converse
ConsistentCrib(cw, pw) ==
    \A x \in LetterPairs(cw, pw), y \in LetterPairs(cw, pw) : (x[1] = y[1]) <=> (x[2] = y[2])

\* the Key maps every aligned ciphertext letter to its plaintext letter
SatisfiesCrib(key, cw, pw) ==
    \A x \in LetterPairs(cw, pw) : key[x[1][2]] = x[2][2]

\* C3: for a bijective Key and a consistent crib of equal lengths, the Key
\* returned by apply_crib_to_key maps every aligned ciphertext letter to its
\* plaintext letter and is a bijection.
C3_CribForcing ==
    (/\ op[1] = "apply_crib_to_key"
     /\ Len(op[2]) = Len(op[3])
     /\ ConsistentCrib(op[2], op[3])
     /\ IsBijection(in_key))
    => /\ SatisfiesCrib(out_key, op[2], op[3])
       /\ IsBijection(out_key)

\* "ABC"/"THE" on the model alphabet: AEH -> HAE applied to the identity Key
C3_Witness ==
    /\ op[1] = "apply_crib_to_key"
    /\ op[2] = <<Upper(1), Upper(2), Upper(3)>>
    /\ op[3] = <<Upper(3), Upper(1), Upper(2)>>
    /\ \A c \in Letters : in_key[c] = c
    /\ out_key[1] = 3 /\ out_key[2] = 1 /\ out_key[3] = 2

DistinctPlains(seq) == {seq[n].plain : n \in 1..Len(seq)}

\* C4: the list run_restarts returns holds no two entries with the same
\* plaintext, and the scores of consecutive entries do not increase.
C4_UniqueAndRanked ==
    pc = "done" =>
        /\ \A m \in 1..Len(out), n \in 1..Len(out) : m # n => out[m].plain # out[n].plain
        /\ \A n \in 1..(Len(out) - 1) : out[n].score >= out[n + 1].score

\* two entries of different score returned, a duplicate plaintext dropped
C4_Witness ==
    /\ pc = "done"
    /\ Len(out) = 2
    /\ out[1].score > out[2].score
    /\ Cardinality(DistinctPlains(results)) < Len(results)

\* C5: for every top_n >= 0 run_restarts returns at most top_n entries.
C5_AtMostTopN ==
    pc = "done" => Len(out) <= top_n

\* C6: run_restarts returns fewer than top_n entries only if the collected
\* results hold fewer than top_n distinct plaintexts, and exactly top_n
\* entries otherwise.
C6_Complete ==
    pc = "done" =>
        /\ Len(out) < top_n => Cardinality(DistinctPlains(results)) < top_n
        /\ Cardinality(DistinctPlains(results)) >= top_n => Len(out) = top_n

\* C7: in every state of a run the best score is at least the current score
\* and the score of the initial Key, no step lowers it, and the triple
\* returned is the best record.
C7_BestOfRun ==
    /\ [](InRun =>
            /\ best_score >= current_score
            /\ best_score >= combined_fitness(decrypt_with_key(cipher, initial_key)))
    /\ [][InRun /\ pc' = pc => best_score' >= best_score]_vars
    /\ [][pc = "main" /\ pc' = "returned" =>
            results' = <<[score |-> best_score, plain |-> best_plain, key |-> best_key]>>]_vars

\* the walk left its optimum: the returned best is not the final current state
C7_Witness ==
    /\ pc = "returned"
    /\ results[1].key # current_key
    /\ results[1].score > current_score
    /\ results[1].score > combined_fitness(decrypt_with_key(cipher, initial_key))

\* the iterations of a restart: one main run and one polish run
RestartIters == steps + (steps \div 2)

\* C8: every run of simulated_anneal makes exactly `steps` iterations and
\* then returns, whatever the draws, and no state stops it early;
\* run_restarts makes one main run of steps iterations and one polish run
\* of floor(steps / 2) iterations per restart.
C8_FixedStepBudget ==
    /\ pc = "main" =>
        /\ nsteps = steps /\ i <= nsteps
        /\ Len(results) = 2 * r
        /\ total_iters = r * RestartIters + i
    /\ pc = "polish" =>
        /\ nsteps = steps \div 2 /\ i <= nsteps
        /\ Len(results) = 2 * r + 1
        /\ total_iters = r * RestartIters + steps + i
    /\ pc = "loop" => Len(results) = 2 * r /\ total_iters = r * RestartIters
    \* the loop goes on exactly while iterations are left, and an iteration
    \* always has a candidate to try
    /\ InRun => /\ LoopContinues(i, nsteps) <=> i < nsteps
                /\ Neighbours(current_key) # {}
    /\ pc = "done" =>
        /\ r = restarts
        /\ Len(results) = 2 * restarts
        /\ total_iters = restarts * RestartIters

\* a whole call with polish iterations has returned
C8_Witness ==
    /\ pc = "done"
    /\ restarts = 1
    /\ steps = 2
    /\ total_iters = 3

\* C9: for a bijective Key K and a text of letters and whitespace,
\* decrypt_with_key(decrypt_with_key(text, invert_key(K)), K) = text.
C9_RoundTrip ==
    op[1] = "round_trip" /\ IsBijection(in_key) => out_text = op[2]

\* "Ab C" through a Key that is not its own inverse
C9_Witness ==
    /\ op[1] = "round_trip"
    /\ op[2] = <<Upper(1), Lower(2), Space, Upper(3)>>
    /\ out_key # in_key
    /\ out_text = op[2]

\* C10: decrypt_with_key returns a string of the same length; a character
\* that is no letter is unchanged, an uppercase letter c becomes Key[c] in
\* uppercase, a lowercase letter becomes Key[upper(c)] in lowercase.
C10_CasePreserved ==
    op[1] = "decrypt_with_key" =>
        /\ Len(out_text) = Len(op[2])
        /\ \A n \in 1..Len(op[2]) :
            LET ch == op[2][n]
            IN  /\ ch[1] = "O" => out_text[n] = ch
                /\ ch[1] = "U" => out_text[n] = <<"U", in_key[ch[2]]>>
                /\ ch[1] = "L" => out_text[n] = <<"L", in_key[ch[2]]>>

\* "Ab, C!" under A -> E, E -> H, H -> A gives "Eh, A!"
C10_Witness ==
    /\ op[1] = "decrypt_with_key"
    /\ op[2] = ExampleText
    /\ in_key[1] = 2 /\ in_key[2] = 3 /\ in_key[3] = 1
    /\ out_text = <<Upper(2), Lower(3), Comma, Space, Upper(1), Bang>>

\* the cribs of a list whose two words have the same length
WellFormed(cribs) == SelectSeq(cribs, LAMBDA cp : Len(cp[1]) = Len(cp[2]))

\* C11: for words of different lengths apply_crib_to_key returns a Key equal
\* to its input on every letter; folded over a crib list, such a pair changes
\* nothing and the other cribs of the list are applied as without it.
C11_MalformedCribIgnored ==
    /\ op[1] = "apply_crib_to_key" /\ Len(op[2]) # Len(op[3]) =>
        \A c \in Letters : out_key[c] = in_key[c]
    /\ op[1] = "apply_cribs" => out_key = ApplyCribs(in_key, WellFormed(op[2]), 1)

\* the list AE -> A (malformed), AE -> HE: the Key is changed, by the second
\* crib alone
C11_Witness ==
    /\ op[1] = "apply_cribs"
    /\ op[2] = <<CribMalformed, CribHE>>
    /\ \A c \in Letters : in_key[c] = c
    /\ out_key # in_key
    /\ out_key = apply_crib_to_key(in_key, CribHE[1], CribHE[2])
    /\ SatisfiesCrib(out_key, CribHE[1], CribHE[2])

\* the whole-word occurrences in the text of a crib phrase, here THE
CribPhraseCount(text) ==
    Len(SelectSeq(StrippedTokens(text), LAMBDA t : t = TextTHE))

\* C12: the score of a plaintext is the bigram term, the dictionary-ratio
\* term and the common-word bonus plus a bonus of at least 100 for each
\* whole-word, case-insensitive occurrence of a crib phrase.
C12_CribPhraseBonus ==
    op[1] = "combined_fitness" =>
        out_score >= bigram_score(op[2]) + word_score(op[2]) * 8
                     + common_words_bonus(op[2]) * 1600
                     + CribPhraseCount(op[2]) * (100 * 1000)

\* C12 as amended: the score is the sum of the three terms alone, so it
\* exceeds the bigram term by at most 8.0 plus 1.6 for each token, whatever
\* words the text holds.
C12_ThreeTermsOnly ==
    op[1] = "combined_fitness" =>
        /\ out_score = bigram_score(op[2]) + word_score(op[2]) * 8
                       + common_words_bonus(op[2]) * 1600
        /\ out_score - bigram_score(op[2]) <= 8000 + 1600 * Len(StrippedTokens(op[2]))

\* "the he": one occurrence of THE, score -24.198 + 8.0 + 3.2
C12_Witness ==
    /\ op[1] = "combined_fitness"
    /\ op[2] = TextTheHe
    /\ CribPhraseCount(op[2]) = 1
    /\ out_score = -12998

\* texts with fewer than 2 letters
Degenerate(text) == Len(letters_only(text)) < 2

\* a score of the penalty -9999.0 plus at most the two word terms
PenaltyScore(score) == score >= -9999000 /\ score <= -9999000 + 8000 + 1600

\* C13: for a text with fewer than 2 letters bigram_score returns -9999.0
\* and combined_fitness the penalty plus the word terms; run_restarts on a
\* ciphertext with fewer than 2 letters scores every Key so, makes the same
\* runs and iterations as on any ciphertext and returns a ranked list.
C13_DegenerateInput ==
    /\ op[1] = "bigram_score" /\ Degenerate(op[2]) => out_score = -9999000
    /\ op[1] = "combined_fitness" /\ Degenerate(op[2]) => PenaltyScore(out_score)
    /\ InRun /\ Degenerate(cipher) =>
        /\ PenaltyScore(current_score)
        /\ PenaltyScore(candidate_score)
        /\ PenaltyScore(best_score)
    /\ pc = "done" /\ Degenerate(cipher) =>
        /\ Len(results) = 2 * restarts
        /\ total_iters = restarts * RestartIters
        /\ \A n \in 1..Len(results) : PenaltyScore(results[n].score)
        /\ restarts >= 1 /\ top_n >= 1 => Len(out) >= 1
        /\ \A n \in 1..(Len(out) - 1) : out[n].score >= out[n + 1].score

\* the ciphertext "A" solved: the plaintext "A" (-9989.4) ranked before
\* another letter (-9999.0)
C13_Witness ==
    /\ pc = "done"
    /\ cipher = <<Upper(1)>>
    /\ Len(out) = 2
    /\ out[1].score = -9989400
    /\ out[2].score = -9999000

\* the uppercased alphabetic lines of a file
AlphaLines(lines) == ReadWords(lines, Len(lines))

\* C14: load_wordlist returns the built-in fallback set when no path is
\* given, when the file cannot be opened or read, or when it holds no purely
\* alphabetic line, and the set of its uppercased alphabetic lines otherwise.
C14_DictionaryFallback ==
    op[1] = "load_wordlist" =>
        LET has_path == op[2]
            can_open == op[3]
            lines == op[4]
            read_failed == op[5] < Len(lines)
        IN  IF ~has_path \/ ~can_open \/ read_failed \/ AlphaLines(lines) = {}
            THEN out_words = FALLBACK_COMMON_WORDS
            ELSE out_words = AlphaLines(lines)

\* a step that is a call of query
QueryStep == call'[1] = "query" /\ ncalls' = ncalls + 1

\* C15: query raises RuntimeError whenever the engine holds no embeddings or
\* an empty document list, and then leaves docs and embeddings unchanged;
\* when the last index returned normally with n >= 1 documents, query
\* returns min(top_k, n) pairs of a document and a score, the scores in
\* non-increasing order.
C15_QueryContract ==
    /\ [][QueryStep /\ (embeddings = None \/ docs = <<>>) =>
            /\ ret'.kind = "RuntimeError"
            /\ docs' = docs
            /\ embeddings' = embeddings]_vars
    /\ [](call[1] = "query" /\ indexed = "ok" /\ Len(docs) >= 1 =>
            /\ ret.kind = "results"
            /\ Len(ret.val) = (IF call[3] < Len(docs) THEN call[3] ELSE Len(docs))
            /\ \A n \in 1..Len(ret.val) :
                \E m \in 1..Len(docs) : ret.val[n][1] = docs[m]
            /\ \A n \in 1..(Len(ret.val) - 1) : ret.val[n][2] >= ret.val[n + 1][2])

\* query on an engine indexed with no documents: embeddings is an empty
\* array, not None, and the call raises
C15_Witness ==
    /\ call[1] = "query"
    /\ indexed = "ok"
    /\ embeddings = Array(<<>>)
    /\ docs = <<>>
    /\ ret.kind = "RuntimeError"

\* a step that is a call of index
IndexStep == call'[1] = "index" /\ ncalls' = ncalls + 1

\* the cache is readable and its model name and document count are those of
\* the call
MatchingCache(ds) ==
    /\ cache.kind = "record"
    /\ cache.model = model_name
    /\ Len(cache.docs) = Len(ds)

\* C16: index with force_recompute false and a readable, matching cache
\* loads the cached embeddings and neither encodes nor writes the cache; with
\* force_recompute true or a missing, corrupt or mismatching cache it encodes
\* the documents and overwrites the cache with the engine's model name, the
\* documents and the new embeddings.
C16_CacheProtocol ==
    [][IndexStep =>
        IF ~call'[3] /\ MatchingCache(call'[2])
        THEN /\ embeddings' = Array(cache.embeddings)
             /\ nencodes' = nencodes
             /\ nwrites' = nwrites
             /\ cache' = cache
        ELSE /\ embeddings' = Array(encode(model_name, TextsOf(call'[2])))
             /\ nencodes' = nencodes + 1
             /\ nwrites' = nwrites + 1
             /\ cache' = CacheRecord(model_name, call'[2],
                                     encode(model_name, TextsOf(call'[2])))]_vars

\* a step that is one iteration of the loop of simulated_anneal
LoopStep == InRun /\ pc' = pc /\ i' = i + 1

\* the triples of the run
Current == <<current_key, current_plain, current_score>>
Candidate == <<candidate_key, candidate_plain, candidate_score>>
Best == <<best_key, best_plain, best_score>>

\* C17: each iteration generates one candidate from the current Key and
\* scores its plaintext; a candidate with delta > 0 always becomes the
\* current state; a rejected candidate leaves the current state and the best
\* record unchanged; the best record changes only to an accepted candidate
\* whose score is strictly greater than the previous best.
C17_MetropolisStep ==
    [][LoopStep =>
        /\ candidate_key' \in {mutate_key_guided(current_key, d) : d \in GuidedDraws}
        /\ candidate_plain' = decrypt_with_key(cipher, candidate_key')
        /\ candidate_score' = combined_fitness(candidate_plain')
        /\ candidate_score' - current_score > 0 => Current' = Candidate'
        /\ Current' # Candidate' => Current' = Current /\ Best' = Best
        /\ Current' = Candidate' \/ Current' = Current
        /\ Best' # Best =>
            /\ Current' = Candidate'
            /\ Best' = Candidate'
            /\ candidate_score' > best_score]_vars

\* a first step uphill: the candidate is the current state and the new best
C17_Witness ==
    /\ pc = "main"
    /\ i = 1
    /\ Current = Candidate
    /\ Best = Candidate
    /\ current_key # initial_key
    /\ best_score > combined_fitness(decrypt_with_key(cipher, initial_key))

\* the call drew the rotation of three distinct letters
RotationDrawn ==
    /\ op[1] = "mutate_key_guided"
    /\ op[2].guided /\ op[2].multi
    /\ Cardinality({op[2].a, op[2].b, op[2].c}) = 3

\* C18: a rotation of three distinct letters a, b, c maps a to b's old
\* value, b to c's old value and c to a's old value, and leaves the other
\* letters unchanged.
C18_RotationAsStated ==
    RotationDrawn =>
        /\ out_key[op[2].a] = in_key[op[2].b]
        /\ out_key[op[2].b] = in_key[op[2].c]
        /\ out_key[op[2].c] = in_key[op[2].a]
        /\ \A l \in DOMAIN in_key \ {op[2].a, op[2].b, op[2].c} : out_key[l] = in_key[l]

\* C18 as amended: the rotation maps a to c's old value, b to a's old value
\* and c to b's old value, and leaves the other letters unchanged.
C18_RotationAsCoded ==
    RotationDrawn =>
        /\ out_key[op[2].a] = in_key[op[2].c]
        /\ out_key[op[2].b] = in_key[op[2].a]
        /\ out_key[op[2].c] = in_key[op[2].b]
        /\ DOMAIN out_key = DOMAIN in_key
        /\ \A l \in DOMAIN in_key \ {op[2].a, op[2].b, op[2].c} : out_key[l] = in_key[l]

\* the identity Key rotated on a = A, b = E, c = H: A -> H, E -> A, H -> E,
\* the fourth letter unchanged
C18_Witness ==
    /\ RotationDrawn
    /\ op[2].a = 1 /\ op[2].b = 2 /\ op[2].c = 3
    /\ \A l \in DOMAIN in_key : in_key[l] = l
    /\ out_key[1] = 3 /\ out_key[2] = 1 /\ out_key[3] = 2
    /\ out_key[NLetters + 1] = NLetters + 1

\* the letters whose mapping the call changed
ChangedLetters == {l \in DOMAIN in_key : out_key[l] # in_key[l]}

\* C19: for every bijective Key and every outcome of the draws, the Key
\* mutate_key_guided returns differs from its input in exactly 2 or exactly
\* 3 letter mappings.
C19_TwoOrThreeChanged ==
    op[1] = "mutate_key_guided" /\ in_key \in WideBijections =>
        Cardinality(ChangedLetters) \in {2, 3}

\* the Key after the cribs of the list, written out for the lists of at
\* most two cribs
Sequential(key, cribs) ==
    IF Len(cribs) = 0 THEN key
    ELSE IF Len(cribs) = 1 THEN apply_crib_to_key(key, cribs[1][1], cribs[1][2])
    ELSE apply_crib_to_key(apply_crib_to_key(key, cribs[1][1], cribs[1][2]),
                           cribs[2][1], cribs[2][2])

\* C20: applying a list of cribs applies them one after the other from the
\* first to the last; the final Key is a bijection and satisfies every
\* letter pair of the crib applied last if that crib is consistent, also
\* when an earlier crib disagrees with it.
C20_CribFold ==
    op[1] = "apply_cribs" =>
        /\ out_key = Sequential(in_key, op[2])
        /\ IsBijection(out_key)
        /\ LET applied == WellFormed(op[2])
               last == applied[Len(applied)]
           IN  applied # <<>> /\ ConsistentCrib(last[1], last[2]) =>
                   SatisfiesCrib(out_key, last[1], last[2])

\* AE -> HE then A -> A: the final Key maps A to A and no longer A to H
C20_Witness ==
    /\ op[1] = "apply_cribs"
    /\ op[2] = <<CribHE, CribA>>
    /\ SatisfiesCrib(out_key, CribA[1], CribA[2])
    /\ ~SatisfiesCrib(out_key, CribHE[1], CribHE[2])
    /\ IsBijection(out_key)


\* the dicts that existed before a step have the contents they had
DictsUntouched == \A o \in 1..Len(heap) : Len(heap') >= o /\ heap'[o] = heap[o]

\* every name and every collected entry still finds in its dict the contents
\* the dict had when it was bound or appended
ContentsAsBound ==
    /\ \A n \in 1..Len(results) : heap[results[n].ref] = results[n].key
    /\ refs.k0 # 0 => heap[refs.k0] = k0
    /\ InRun => /\ heap[refs.initial_key] = initial_key
                /\ heap[refs.current_key] = current_key
                /\ heap[refs.best_key] = best_key

\* C21: Keys are replaced, never mutated in place: no step of run_restarts,
\* simulated_anneal, the mutation functions or apply_crib_to_key changes a
\* dict that existed before it, so the initial_key of a run, the Key passed to
\* a mutation or to apply_crib_to_key, and the Key of every entry already
\* collected (the main run's entry during the polish run, the entries of the
\* earlier restarts) keep their contents
C21_KeysReplacedNotMutated == [][DictsUntouched]_vars /\ []ContentsAsBound

\* a polish run has moved away from the Key of its main run's entry, which
\* is the dict it was started from, and a crib was applied to k0
C21_Witness ==
    /\ pc = "polish"
    /\ crib_list # <<>>
    /\ refs.initial_key = results[Len(results)].ref
    /\ current_key # results[Len(results)].key
    /\ best_key # results[Len(results)].key

\* every crib of the list has two words of the same length and is consistent
UsableCribs(cribs) ==
    \A n \in 1..Len(cribs) :
        Len(cribs[n][1]) = Len(cribs[n][2]) /\ ConsistentCrib(cribs[n][1], cribs[n][2])

\* C22: the Key a restart hands to its main run is a bijection (a fresh
\* random Key); when the crib list is not empty and its cribs are consistent
\* and of equal lengths, that Key maps every letter pair of at least one crib
\* of the list
C22_SeedingPolicy ==
    (pc = "main" /\ i = 0) =>
        /\ initial_key = k0
        /\ IsBijection(k0)
        /\ (crib_list # <<>> /\ UsableCribs(crib_list)) =>
            \E n \in 1..Len(crib_list) :
                SatisfiesCrib(k0, crib_list[n][1], crib_list[n][2])

\* the fold of AE -> HE, A -> A: the seed satisfies the last crib and no
\* longer the first
C22_Witness ==
    /\ pc = "main" /\ i = 0
    /\ crib_list = <<CribHE, CribA>>
    /\ SatisfiesCrib(k0, CribA[1], CribA[2])
    /\ ~SatisfiesCrib(k0, CribHE[1], CribHE[2])

\* the larger of two scores
MaxScore(x, y) == IF x >= y THEN x ELSE y

\* the score of the initial Key of the run
InitialScore == combined_fitness(decrypt_with_key(cipher, initial_key))

\* C23: the best score of a run starts at the score of the initial Key, and
\* after every iteration it is the larger of what it was and the score of
\* the candidate of that iteration, accepted or not: no candidate above the
\* recorded best is rejected, so the score returned is the maximum over the
\* initial Key and all candidates
C23_BestOverAllCandidates ==
    /\ [](InRun /\ i = 0 => best_score = InitialScore)
    /\ [][LoopStep => /\ best_score' = MaxScore(best_score, candidate_score')
                      /\ candidate_score' > best_score =>
                            (current_score' = candidate_score' /\ best_key' = candidate_key')]_vars
    /\ [](pc = "returned" => results[1].score = best_score)

\* a run that improved on its initial Key and whose last candidate, below
\* the best, left the best alone
C23_Witness ==
    /\ pc = "returned"
    /\ i = MaxSteps
    /\ results[1].score > InitialScore
    /\ candidate_score < results[1].score
    /\ candidate_key # best_key

\* the plaintext is the ciphertext under the Key and the score is the
\* fitness of the plaintext
ConsistentTriple(score, plain, key) ==
    /\ plain = decrypt_with_key(cipher, key)
    /\ score = combined_fitness(plain)

\* C24: in every state of a run the current, the candidate and the best
\* record are consistent triples, every entry collected or returned by
\* run_restarts is one, and an iteration leaves the best record as it was or
\* replaces all three of its components by those of its candidate
C24_TripleConsistency ==
    /\ [](InRun =>
            /\ ConsistentTriple(current_score, current_plain, current_key)
            /\ ConsistentTriple(candidate_score, candidate_plain, candidate_key)
            /\ ConsistentTriple(best_score, best_plain, best_key))
    /\ [](\A n \in 1..Len(results) :
            ConsistentTriple(results[n].score, results[n].plain, results[n].key))
    /\ [](\A n \in 1..Len(out) :
            ConsistentTriple(out[n].score, out[n].plain, out[n].key))
    /\ [][LoopStep => (Best' = Best \/ Best' = Candidate')]_vars

\* a second restart whose main run holds three different Keys, with the
\* entries of the first restart collected
C24_Witness ==
    /\ pc = "main"
    /\ Len(results) = 2
    /\ results[1].key # results[2].key
    /\ best_key # current_key
    /\ candidate_key # current_key
    /\ candidate_key # best_key
    /\ best_plain # current_plain

\* the restarts whose two results are collected
RestartsDone == IF pc = "done" THEN restarts ELSE r

\* C25: every completed restart has contributed two results, the main run's
\* and then the polish run's, and the polish result scores at least as much
\* as the main result of its restart; for top_n >= 1 and restarts >= 1 the
\* first entry returned scores at least as much as every collected result
C25_PolishAndHead ==
    /\ pc \in {"loop", "main", "done"} => Len(results) = 2 * RestartsDone
    /\ pc = "polish" => Len(results) = 2 * r + 1
    /\ pc \in {"loop", "main", "polish"} =>
        \A k \in 1..r : results[2 * k].score >= results[2 * k - 1].score
    /\ (pc = "done" /\ top_n >= 1 /\ restarts >= 1) =>
        /\ Len(out) >= 1
        /\ \A n \in 1..Len(results) : out[1].score >= results[n].score
        /\ \E n \in 1..Len(results) : out[1] = results[n]

\* two restarts returned: four results of which the first returned is above
\* the last
C25_Witness ==
    /\ pc = "done"
    /\ restarts = 2 /\ top_n >= 1
    /\ Len(results) = 4
    /\ out[1].score > results[4].score
    /\ out[1].score > results[2].score

\* C26: when index(docs) returns, the embeddings of the engine have one row
\* for each document of engine.docs, and row n is the encoding of the text
\* of docs[n] by the engine's model, whatever an earlier index has cached
C26_EmbeddingsMatchDocs ==
    (call[1] = "index" /\ ret.kind = "ok") =>
        /\ embeddings.array
        /\ Len(embeddings.rows) = Len(docs)
        /\ embeddings.rows = encode(model_name, TextsOf(docs))

=========================================================================
